---- MODULE Spec2Model ----
(***************************************************************************)
(* Model of src/llmtuner/model/utils.py: dispatch_model,                   *)
(* find_all_linear_modules, load_valuehead_params and register_autoclass.  *)
(* A caller invokes one of the four functions on arbitrary inputs; the     *)
(* function then runs to completion.  Python strings that the code         *)
(* searches or splits are sequences of one-character strings.              *)
(***************************************************************************)
EXTENDS Integers, Sequences, FiniteSets

VARIABLES pc, args, ret, calls, log, placement,
          linear_cls, output_layer_names, module_names, todo,
          handle_open, tensors, exc

vars == <<pc, args, ret, calls, log, placement,
          linear_cls, output_layer_names, module_names, todo,
          handle_open, tensors, exc>>

find_locals == <<linear_cls, output_layer_names, module_names, todo>>

load_locals == <<handle_open, tensors, exc>>

(* ---------------- bounds ---------------- *)

\* largest value of torch.cuda.device_count() the caller may see
MaxDevices == 3

\* largest number of sub-modules below the root of a model
MaxModules == 3

(* ---------------- Python values ---------------- *)

\* Python's None
None == "<None>"

\* an attribute that getattr does not find
Absent == "<absent>"

\* bool(x) for the values a quantization_method attribute takes
Truthy(x) == x # None /\ x # ""

\* getattr(obj, name, default) for an attribute that holds v or is absent
GetAttr(v, default) == IF v = Absent THEN default ELSE v

(* ---------------- strings ---------------- *)

lm_head == <<"l", "m", "_", "h", "e", "a", "d">>

output_layer == <<"o", "u", "t", "p", "u", "t", "_", "l", "a", "y", "e", "r">>

q_proj == <<"q", "_", "p", "r", "o", "j">>

v_proj == <<"v", "_", "p", "r", "o", "j">>

dense == <<"d", "e", "n", "s", "e">>

model_seg == <<"m", "o", "d", "e", "l">>

layers == <<"l", "a", "y", "e", "r", "s">>

transformer == <<"t", "r", "a", "n", "s", "f", "o", "r", "m", "e", "r">>

zero == <<"0">>

one == <<"1">>

\* sub in s, for Python strings
Contains(sub, s) ==
    \E i \in 1..(Len(s) - Len(sub) + 1) : SubSeq(s, i, i + Len(sub) - 1) = sub

RECURSIVE Join(_, _)
\* sep.join(parts)
Join(parts, sep) ==
    IF Len(parts) = 0 THEN <<>>
    ELSE IF Len(parts) = 1 THEN parts[1]
    ELSE parts[1] \o sep \o Join(Tail(parts), sep)

\* a variant that keeps the whole dotted name
LastSegmentWhole(name) == name

\* name.split(".")[-1]
LastSegment(name) ==
    LET dots == {i \in 1..Len(name) : name[i] = "."}
    IN  IF dots = {} THEN name
        ELSE LET last == CHOOSE i \in dots : \A j \in dots : j <= i
             IN  SubSeq(name, last + 1, Len(name))

\* the orders in which a set can be iterated
Orderings(S) ==
    {s \in [1..Cardinality(S) -> S] : \A i, j \in 1..Cardinality(S) : s[i] = s[j] => i = j}

Elements(s) == {s[i] : i \in 1..Len(s)}

(* ---------------- models ---------------- *)

QuantizationMethods == {None, "", "bitsandbytes", "gptq"}

ModelTypes == {None, "llama", "chatglm"}

ModuleClasses == {"Linear", "Linear4bit", "Linear8bitLt", "Other"}

\* isinstance(module, cls): the two bitsandbytes layers derive from torch.nn.Linear
IsInstance(module_cls, cls) ==
    \/ module_cls = cls
    \/ cls = "Linear" /\ module_cls \in {"Linear4bit", "Linear8bitLt"}

\* the module paths a model may hold below its root, in traversal order
ModulePaths ==
    << <<model_seg, layers, zero, q_proj>>,
       <<model_seg, layers, zero, v_proj>>,
       <<model_seg, layers, one, q_proj>>,
       <<lm_head>>,
       <<lm_head, dense>>,
       <<transformer, output_layer>> >>

RECURSIVE SeqOfPaths(_, _, _)
\* the chosen paths, in traversal order, with their classes
SeqOfPaths(i, chosen, cls) ==
    IF i > Len(ModulePaths) THEN <<>>
    ELSE (IF i \in chosen THEN << [path |-> ModulePaths[i], cls |-> cls[i]] >> ELSE <<>>)
         \o SeqOfPaths(i + 1, chosen, cls)

\* model.named_modules(): the root under the empty name, then every
\* sub-module under its dotted path
named_modules(modules) ==
    << [name |-> <<>>, cls |-> "Other"] >>
    \o [i \in 1..Len(modules) |->
            [name |-> Join(modules[i].path, <<".">>), cls |-> modules[i].cls]]

(* ---------------- initial state and the caller ---------------- *)

Init ==
    /\ pc = "idle"
    /\ args = [fn |-> "none"]
    /\ ret = [kind |-> "none"]
    /\ calls = <<>>
    /\ log = <<>>
    /\ placement = "as_loaded"
    /\ linear_cls = None
    /\ output_layer_names = <<>>
    /\ module_names = {}
    /\ todo = <<>>
    /\ handle_open = FALSE
    /\ tensors = {}
    /\ exc = None

\* the caller invokes dispatch_model(model)
CallDispatchModel ==
    /\ pc = "idle"
    /\ \E qm \in QuantizationMethods, n \in 0..MaxDevices, pt \in BOOLEAN,
          mt \in ModelTypes, ns \in {Absent, None, "declared"}, sk \in BOOLEAN :
          args' = [fn |-> "dispatch_model",
                   quantization_method |-> qm,
                   device_count |-> n,
                   is_pretrained |-> pt,
                   model_type |-> mt,
                   no_split_modules |-> ns,
                   skip_keys |-> sk]
    /\ pc' = "dispatch_model"
    /\ UNCHANGED <<ret, calls, log, placement, find_locals, load_locals>>

\* the caller invokes find_all_linear_modules(model)
CallFindAllLinearModules ==
    /\ pc = "idle"
    /\ \E qm \in QuantizationMethods, four \in BOOLEAN, mt \in ModelTypes,
          chosen \in {S \in SUBSET (1..Len(ModulePaths)) : Cardinality(S) <= MaxModules} :
          \E cls \in [chosen -> ModuleClasses] :
              args' = [fn |-> "find_all_linear_modules",
                       quantization_method |-> qm,
                       is_loaded_in_4bit |-> four,
                       model_type |-> mt,
                       modules |-> SeqOfPaths(1, chosen, cls)]
    /\ pc' = "find_select"
    /\ UNCHANGED <<ret, calls, log, placement, find_locals, load_locals>>

(* ---------------- dispatch_model ---------------- *)

\* a variant that recognises one backend only
already_placed_bnb_only(m) == m.quantization_method = "bitsandbytes"

\* getattr(model, "quantization_method", None) is truthy
already_placed(m) == Truthy(m.quantization_method)

\* a variant that takes one accelerator for several
multi_device_from_one(m) ==
    /\ m.device_count >= 1
    /\ m.is_pretrained
    /\ m.model_type # "chatglm"

\* the condition of the multi-device branch
multi_device(m) ==
    /\ m.device_count > 1
    /\ m.is_pretrained
    /\ m.model_type # "chatglm"

\* a variant that only notices a missing attribute
no_split_undeclared_absent_only(m) == m.no_split_modules = Absent

\* getattr(model, "_no_split_modules", None) is None
no_split_undeclared(m) == GetAttr(m.no_split_modules, None) = None

\* the calls of the multi-device branch, in order
multi_device_calls(m) ==
    << [op |-> "get_balanced_memory", arg |-> "no_split_module_classes"],
       [op |-> "tie_weights", arg |-> ""],
       [op |-> "infer_auto_device_map", arg |-> "max_memory"],
       [op |-> "accelerate.dispatch_model",
        arg |-> IF m.skip_keys THEN "device_map,skip_keys" ELSE "device_map"] >>

dispatch_model ==
    /\ pc = "dispatch_model"
    /\ pc' = "done"
    /\ IF already_placed(args)
       THEN /\ ret' = [kind |-> "return", value |-> "model"]
            /\ UNCHANGED <<calls, placement>>
       ELSE IF multi_device(args)
       THEN IF no_split_undeclared(args)
            THEN /\ ret' = [kind |-> "raise", exc |-> "ValueError",
                            msg |-> <<"The model class needs to implement the _no_split_modules attribute.">>]
                 /\ UNCHANGED <<calls, placement>>
            ELSE /\ calls' = calls \o multi_device_calls(args)
                 /\ placement' = "device_map"
                 /\ ret' = [kind |-> "return", value |-> "model"]
       ELSE /\ calls' = Append(calls, [op |-> "to", arg |-> "get_current_device()"])
            /\ placement' = "current_device"
            /\ ret' = [kind |-> "return", value |-> "model"]
    /\ UNCHANGED <<args, log, find_locals, load_locals>>

(* ---------------- find_all_linear_modules ---------------- *)

Unsupported == "<unsupported>"

\* a variant that falls back to the dense layer
select_linear_cls_lenient(m) ==
    IF m.quantization_method = "bitsandbytes"
    THEN (IF m.is_loaded_in_4bit THEN "Linear4bit" ELSE "Linear8bitLt")
    ELSE "Linear"

\* the layer class the walk looks for, or Unsupported
select_linear_cls(m) ==
    IF m.quantization_method = None THEN "Linear"
    ELSE IF m.quantization_method = "bitsandbytes"
    THEN (IF m.is_loaded_in_4bit THEN "Linear4bit" ELSE "Linear8bitLt")
    ELSE Unsupported

\* a variant that forgets the architecture
get_output_layer_names_fixed(model_type) == <<lm_head>>

\* output_layer_names after lines 64-66
get_output_layer_names(model_type) ==
    IF model_type = "chatglm" THEN <<lm_head, output_layer>> ELSE <<lm_head>>

\* any([output_layer in name for output_layer in output_layer_names])
any_output_layer_in(name, names) ==
    \E i \in 1..Len(names) : Contains(names[i], name)

\* lines 55-69: choose the layer class or raise, then start the walk
find_select ==
    /\ pc = "find_select"
    /\ IF select_linear_cls(args) = Unsupported
       THEN /\ ret' = [kind |-> "raise", exc |-> "ValueError",
                       msg |-> <<"Finding linear modules for ", args.quantization_method,
                                 " models is not supported.">>]
            /\ pc' = "done"
            /\ UNCHANGED <<calls, find_locals>>
       ELSE /\ linear_cls' = select_linear_cls(args)
            /\ output_layer_names' = get_output_layer_names(args.model_type)
            /\ module_names' = {}
            /\ todo' = named_modules(args.modules)
            /\ calls' = Append(calls, [op |-> "named_modules", arg |-> ""])
            /\ pc' = "find_walk"
            /\ UNCHANGED ret
    /\ UNCHANGED <<args, log, placement, load_locals>>

\* lines 69-74: one iteration of the walk
find_walk ==
    /\ pc = "find_walk"
    /\ todo # <<>>
    /\ LET name == Head(todo).name
           module == Head(todo).cls
       IN  module_names' =
               IF IsInstance(module, linear_cls) /\ ~any_output_layer_in(name, output_layer_names)
               THEN module_names \cup {LastSegment(name)}
               ELSE module_names
    /\ todo' = Tail(todo)
    /\ UNCHANGED <<pc, args, ret, calls, log, placement, linear_cls, output_layer_names,
                   load_locals>>

\* lines 76-77: log the names and return them as a list
find_return ==
    /\ pc = "find_walk"
    /\ todo = <<>>
    /\ \E order \in Orderings(module_names) :
          /\ log' = Append(log, [level |-> "info",
                                 msg |-> <<"Found linear modules: ", Join(order, <<",">>)>>])
          /\ ret' = [kind |-> "return", value |-> order]
    /\ pc' = "done"
    /\ UNCHANGED <<args, calls, placement, find_locals, load_locals>>

(* ---------------- load_valuehead_params ---------------- *)

SAFE_WEIGHTS_NAME == "model.safetensors"

WEIGHTS_NAME == "pytorch_model.bin"

WeightKey == "v_head.summary.weight"

BiasKey == "v_head.summary.bias"

TensorKeys == {WeightKey, BiasKey, "other.weight"}

RepoIds == {"saves/reward", "org/reward-model"}

\* what the source holds under the safe-serialization file name
SafeFiles ==
    {[state |-> s, keys |-> {}] : s \in {"missing", "malformed"}}
    \cup {[state |-> "ok", keys |-> K] : K \in SUBSET TensorKeys}

\* what the source holds under the legacy file name: nothing, bytes that do
\* not deserialize, or a pickled object (a mapping, None, or something else)
LegacyFiles ==
    {[state |-> s, payload |-> "NoneType", keys |-> {}] : s \in {"missing", "malformed"}}
    \cup {[state |-> "ok", payload |-> p, keys |-> {}] : p \in {"NoneType", "other"}}
    \cup {[state |-> "ok", payload |-> "dict", keys |-> K] : K \in SUBSET TensorKeys}

\* the caller invokes load_valuehead_params(path_or_repo_id, model_args)
CallLoadValueheadParams ==
    /\ pc = "idle"
    /\ \E id \in RepoIds, inst \in BOOLEAN, sf \in SafeFiles, lf \in LegacyFiles :
          args' = [fn |-> "load_valuehead_params",
                   path_or_repo_id |-> id,
                   safetensors_installed |-> inst,
                   safe_file |-> sf,
                   legacy_file |-> lf]
    /\ pc' = "lv_import"
    /\ UNCHANGED <<ret, calls, log, placement, find_locals, load_locals>>

\* line 107: from safetensors import safe_open
lv_import ==
    /\ pc = "lv_import"
    /\ IF args.safetensors_installed
       THEN pc' = "lv_resolve_safe" /\ UNCHANGED exc
       ELSE pc' = "lv_except_safe" /\ exc' = "No module named safetensors"
    /\ UNCHANGED <<args, ret, calls, log, placement, find_locals, handle_open, tensors>>

\* cached_file(filename, **kwargs): a missing file fails, a present one
\* resolves unless the fetch itself fails
cached_file_outcomes(file) ==
    IF file.state = "missing" THEN {"not found"} ELSE {"resolved", "connection error"}

\* line 108
lv_resolve_safe ==
    /\ pc = "lv_resolve_safe"
    /\ calls' = Append(calls, [op |-> "cached_file", arg |-> SAFE_WEIGHTS_NAME])
    /\ \E outcome \in cached_file_outcomes(args.safe_file) :
          IF outcome = "resolved"
          THEN pc' = "lv_safe_open" /\ UNCHANGED exc
          ELSE pc' = "lv_except_safe" /\ exc' = outcome
    /\ UNCHANGED <<args, ret, log, placement, find_locals, handle_open, tensors>>

\* line 109: safe_open(...).__enter__()
lv_safe_open ==
    /\ pc = "lv_safe_open"
    /\ calls' = Append(calls, [op |-> "safe_open", arg |-> SAFE_WEIGHTS_NAME])
    /\ IF args.safe_file.state = "ok"
       THEN /\ handle_open' = TRUE
            /\ pc' = "lv_get_weight"
            /\ UNCHANGED exc
       ELSE /\ exc' = "invalid header"
            /\ pc' = "lv_except_safe"
            /\ UNCHANGED handle_open
    /\ UNCHANGED <<args, ret, log, placement, find_locals, tensors>>

\* f.get_tensor(key) inside the with block; a failure leaves through __exit__
get_tensor(key, at, next) ==
    /\ pc = at
    /\ handle_open
    /\ calls' = Append(calls, [op |-> "get_tensor", arg |-> key])
    /\ IF key \in args.safe_file.keys
       THEN tensors' = tensors \cup {key} /\ UNCHANGED exc /\ pc' = next
       ELSE exc' = "missing tensor" /\ UNCHANGED tensors /\ pc' = "lv_with_exit"
    /\ UNCHANGED <<args, ret, log, placement, find_locals, handle_open>>

\* line 111
lv_get_weight == get_tensor(WeightKey, "lv_get_weight", "lv_get_bias")

\* line 112
lv_get_bias == get_tensor(BiasKey, "lv_get_bias", "lv_with_exit")

\* a variant that closes only when the block ends normally
handle_after_exit_leaky(pending) == pending # None

\* the handle after safe_open(...).__exit__: closed, whatever left the block
handle_after_exit(pending) == FALSE

\* lines 109-113: leaving the with block, by return or by exception
lv_with_exit ==
    /\ pc = "lv_with_exit"
    /\ handle_open' = handle_after_exit(exc)
    /\ calls' = Append(calls, [op |-> "__exit__", arg |-> SAFE_WEIGHTS_NAME])
    /\ IF exc = None
       THEN /\ ret' = [kind |-> "return",
                       value |-> [type |-> "dict", keys |-> tensors,
                                  file |-> SAFE_WEIGHTS_NAME]]
            /\ pc' = "done"
       ELSE /\ pc' = "lv_except_safe"
            /\ UNCHANGED ret
    /\ UNCHANGED <<args, log, placement, find_locals, tensors, exc>>

\* lines 114-115
lv_except_safe ==
    /\ pc = "lv_except_safe"
    /\ log' = Append(log, [level |-> "info",
                           msg |-> <<"Failed to load ", SAFE_WEIGHTS_NAME, ": ", exc>>])
    /\ exc' = None
    /\ pc' = "lv_resolve_legacy"
    /\ UNCHANGED <<args, ret, calls, placement, find_locals, handle_open, tensors>>

\* line 118
lv_resolve_legacy ==
    /\ pc = "lv_resolve_legacy"
    /\ calls' = Append(calls, [op |-> "cached_file", arg |-> WEIGHTS_NAME])
    /\ \E outcome \in cached_file_outcomes(args.legacy_file) :
          IF outcome = "resolved"
          THEN pc' = "lv_torch_load" /\ UNCHANGED exc
          ELSE pc' = "lv_except_legacy" /\ exc' = outcome
    /\ UNCHANGED <<args, ret, log, placement, find_locals, handle_open, tensors>>

\* line 119: return torch.load(vhead_file, map_location="cpu")
lv_torch_load ==
    /\ pc = "lv_torch_load"
    /\ calls' = Append(calls, [op |-> "torch.load", arg |-> WEIGHTS_NAME])
    /\ IF args.legacy_file.state = "ok"
       THEN /\ ret' = [kind |-> "return",
                       value |-> [type |-> args.legacy_file.payload,
                                  keys |-> args.legacy_file.keys,
                                  file |-> WEIGHTS_NAME]]
            /\ pc' = "done"
            /\ UNCHANGED exc
       ELSE /\ exc' = "invalid load key"
            /\ pc' = "lv_except_legacy"
            /\ UNCHANGED ret
    /\ UNCHANGED <<args, log, placement, find_locals, handle_open, tensors>>

\* lines 120-121
lv_except_legacy ==
    /\ pc = "lv_except_legacy"
    /\ log' = Append(log, [level |-> "info",
                           msg |-> <<"Failed to load ", WEIGHTS_NAME, ": ", exc>>])
    /\ exc' = None
    /\ pc' = "lv_warn"
    /\ UNCHANGED <<args, ret, calls, placement, find_locals, handle_open, tensors>>

\* lines 123-124
lv_warn ==
    /\ pc = "lv_warn"
    /\ log' = Append(log, [level |-> "warning",
                           msg |-> <<"Provided path (", args.path_or_repo_id,
                                     ") does not contain valuehead weights.">>])
    /\ ret' = [kind |-> "return",
               value |-> [type |-> "NoneType", keys |-> {}, file |-> ""]]
    /\ pc' = "done"
    /\ UNCHANGED <<args, calls, placement, find_locals, load_locals>>

(* ---------------- register_autoclass ---------------- *)

AutoKeys == {"AutoConfig", "AutoModelForCausalLM", "AutoTokenizer"}

\* an auto_map attribute or entry: absent, or a mapping with some of the keys
AutoMaps ==
    {[present |-> FALSE, keys |-> {}]}
    \cup {[present |-> TRUE, keys |-> K] : K \in SUBSET AutoKeys}

\* the caller invokes register_autoclass(config, model, tokenizer)
CallRegisterAutoclass ==
    /\ pc = "idle"
    /\ \E cm \in AutoMaps, tm \in AutoMaps :
          args' = [fn |-> "register_autoclass",
                   config_auto_map |-> cm,
                   tokenizer_auto_map |-> tm]
    /\ pc' = "register_autoclass"
    /\ UNCHANGED <<ret, calls, log, placement, find_locals, load_locals>>

\* the keys of a mapping that defaults to {} when it is absent
keys_or_empty(m) == IF m.present THEN m.keys ELSE {}

\* getattr(config, "auto_map", {})
config_auto_map(a) == keys_or_empty(a.config_auto_map)

\* a variant that reads the configuration's mapping for the tokenizer as well
tokenizer_auto_map_of_config(a) == keys_or_empty(a.config_auto_map)

\* tokenizer.init_kwargs.get("auto_map", {})
tokenizer_auto_map(a) == keys_or_empty(a.tokenizer_auto_map)

\* obj.__class__.register_for_auto_class() when the condition holds
register_if(cond, obj) ==
    IF cond THEN << [op |-> "register_for_auto_class", arg |-> obj] >> ELSE <<>>

register_autoclass ==
    /\ pc = "register_autoclass"
    /\ calls' = calls
                \o register_if("AutoConfig" \in config_auto_map(args), "config")
                \o register_if("AutoModelForCausalLM" \in config_auto_map(args), "model")
                \o register_if("AutoTokenizer" \in tokenizer_auto_map(args), "tokenizer")
    /\ ret' = [kind |-> "return", value |-> None]
    /\ pc' = "done"
    /\ UNCHANGED <<args, log, placement, find_locals, load_locals>>

(* ---------------- the program ---------------- *)

Next ==
    \/ CallDispatchModel
    \/ CallFindAllLinearModules
    \/ CallLoadValueheadParams
    \/ CallRegisterAutoclass
    \/ dispatch_model
    \/ find_select
    \/ find_walk
    \/ find_return
    \/ lv_import
    \/ lv_resolve_safe
    \/ lv_safe_open
    \/ lv_get_weight
    \/ lv_get_bias
    \/ lv_with_exit
    \/ lv_except_safe
    \/ lv_resolve_legacy
    \/ lv_torch_load
    \/ lv_except_legacy
    \/ lv_warn
    \/ register_autoclass

Spec == Init /\ [][Next]_vars

(* ---------------- properties: dispatch_model ---------------- *)

DispatchDone == args.fn = "dispatch_model" /\ pc = "done"

MultiDeviceOps ==
    {"get_balanced_memory", "tie_weights", "infer_auto_device_map", "accelerate.dispatch_model"}

OpsCalled == {calls[i].op : i \in 1..Len(calls)}

\* the model carries a quantization marker
HasMarker == args.quantization_method \notin {None, ""}

\* C5: a model that carries a quantization marker is returned as it is, with
\* its placement untouched and without any placement call, whatever the
\* number of accelerators and the architecture.
C5_QuantizedReturnedUnchanged ==
    (DispatchDone /\ HasMarker) =>
        /\ ret = [kind |-> "return", value |-> "model"]
        /\ calls = <<>>
        /\ placement = "as_loaded"

C5_Witness ==
    /\ DispatchDone
    /\ args.quantization_method = "gptq"
    /\ args.device_count = 2
    /\ args.is_pretrained
    /\ args.model_type = "llama"
    /\ ret.kind = "return"

\* C6 as stated: with exactly one accelerator visible every model goes
\* through the single-device move and never through the multi-device path.
C6_OneDeviceAlwaysMoves ==
    (DispatchDone /\ args.device_count = 1) =>
        /\ Len(calls) = 1
        /\ calls[1].op = "to"
        /\ OpsCalled \cap MultiDeviceOps = {}

\* C6 amended: with exactly one accelerator visible no model goes through
\* the multi-device path, and every model without a quantization marker is
\* moved as a whole to the default device and returned.
C6_OneDeviceMovesUnlessQuantized ==
    (DispatchDone /\ args.device_count = 1) =>
        /\ OpsCalled \cap MultiDeviceOps = {}
        /\ ~HasMarker =>
              /\ Len(calls) = 1
              /\ calls[1].op = "to"
              /\ placement = "current_device"
              /\ ret = [kind |-> "return", value |-> "model"]

C6_Witness ==
    /\ DispatchDone
    /\ args.device_count = 1
    /\ ~HasMarker
    /\ args.is_pretrained
    /\ args.model_type = "llama"
    /\ args.no_split_modules = "declared"
    /\ OpsCalled = {"to"}

RaisedNoSplit ==
    /\ ret.kind = "raise"
    /\ ret.exc = "ValueError"
    /\ calls = <<>>
    /\ placement = "as_loaded"

\* C7 as stated: without a quantization marker, with more than one
\* accelerator and an architecture other than chatglm, a model that does not
\* declare _no_split_modules makes dispatch_model raise.
C7_RaisesWithoutNoSplit ==
    (/\ DispatchDone
     /\ ~HasMarker
     /\ args.device_count > 1
     /\ args.model_type # "chatglm"
     /\ args.no_split_modules \in {Absent, None}) => RaisedNoSplit

\* C7 amended: the same, for a model that is an instance of PreTrainedModel.
C7_RaisesWithoutNoSplitPreTrained ==
    (/\ DispatchDone
     /\ ~HasMarker
     /\ args.device_count > 1
     /\ args.is_pretrained
     /\ args.model_type # "chatglm"
     /\ args.no_split_modules \in {Absent, None}) => RaisedNoSplit

C7_Witness ==
    /\ DispatchDone
    /\ args.quantization_method = None
    /\ args.device_count = 2
    /\ args.is_pretrained
    /\ args.model_type = "llama"
    /\ args.no_split_modules = Absent
    /\ ret.kind = "raise"

(* ---------------- properties: find_all_linear_modules ---------------- *)

FindCalled == args.fn = "find_all_linear_modules"

FindReturned == FindCalled /\ pc = "done" /\ ret.kind = "return"

\* the model holds a sub-module of this class under this path
HasModule(path, cls) ==
    \E i \in 1..Len(args.modules) : args.modules[i] = [path |-> path, cls |-> cls]

\* C3 as stated: the result never holds "lm_head", and holds "output_layer"
\* only when the architecture is chatglm.
C3_OutputLayerOnlyForChatglm ==
    FindReturned =>
        /\ lm_head \notin Elements(ret.value)
        /\ output_layer \in Elements(ret.value) => args.model_type = "chatglm"

\* C3 amended: the result never holds "lm_head", and never holds
\* "output_layer" when the architecture is chatglm.
C3_NoOutputLayerForChatglm ==
    FindReturned =>
        /\ lm_head \notin Elements(ret.value)
        /\ args.model_type = "chatglm" => output_layer \notin Elements(ret.value)

C3_Witness ==
    /\ FindReturned
    /\ args.model_type = "chatglm"
    /\ args.quantization_method = None
    /\ HasModule(<<transformer, output_layer>>, "Linear")
    /\ HasModule(<<lm_head>>, "Linear")
    /\ HasModule(<<model_seg, layers, zero, q_proj>>, "Linear")
    /\ ret.value = <<q_proj>>

SupportedQuantization == args.quantization_method \in {None, "bitsandbytes"}

\* the layer type the quantization state calls for
SelectedType ==
    IF args.quantization_method = None THEN "Linear"
    ELSE IF args.is_loaded_in_4bit THEN "Linear4bit" ELSE "Linear8bitLt"

\* the output-layer names that exclude a module
ExcludedNames ==
    {lm_head} \cup (IF args.model_type = "chatglm" THEN {output_layer} ELSE {})

\* the final path segments of the sub-modules of the selected type whose
\* dotted path holds no excluded name
ExpectedNames ==
    {args.modules[i].path[Len(args.modules[i].path)] :
        i \in {j \in 1..Len(args.modules) :
                 /\ IsInstance(args.modules[j].cls, SelectedType)
                 /\ \A x \in ExcludedNames :
                       ~Contains(x, Join(args.modules[j].path, <<".">>))}}

\* the example: a 4-bit bitsandbytes model holding the 4-bit linear layers
\* "model.layers.0.q_proj" and "lm_head"
IsExample ==
    /\ args.quantization_method = "bitsandbytes"
    /\ args.is_loaded_in_4bit
    /\ args.modules = << [path |-> <<model_seg, layers, zero, q_proj>>, cls |-> "Linear4bit"],
                         [path |-> <<lm_head>>, cls |-> "Linear4bit"] >>

\* C8: for a supported quantization state the function returns, without
\* duplicates, exactly the final path segments of the sub-modules of the
\* selected type whose path holds no excluded name; the example yields
\* ["q_proj"].
C8_ResultIsExpectedNames ==
    (FindCalled /\ pc = "done" /\ SupportedQuantization) =>
        /\ ret.kind = "return"
        /\ Elements(ret.value) = ExpectedNames
        /\ Len(ret.value) = Cardinality(ExpectedNames)
        /\ IsExample => ret.value = <<q_proj>>

C8_Witness == FindReturned /\ IsExample /\ ret.value = <<q_proj>>

\* C9: every quantization method other than None and "bitsandbytes" makes
\* the function raise a ValueError that names the method, before any
\* sub-module is walked and without any result.
C9_UnsupportedRaisesFirst ==
    (FindCalled /\ ~SupportedQuantization /\ pc # "find_select") =>
        /\ pc = "done"
        /\ ret.kind = "raise"
        /\ ret.exc = "ValueError"
        /\ \E i \in 1..Len(ret.msg) : ret.msg[i] = args.quantization_method
        /\ calls = <<>>
        /\ todo = <<>>
        /\ module_names = {}
        /\ log = <<>>

C9_Witness ==
    /\ FindCalled
    /\ pc = "done"
    /\ args.quantization_method = "gptq"
    /\ Len(args.modules) > 0
    /\ ret.kind = "raise"

(* ---------------- properties: load_valuehead_params ---------------- *)

LoadCalled == args.fn = "load_valuehead_params"

LoadDone == LoadCalled /\ pc = "done"

\* the attempt on this file failed: its handler logged the failure
AttemptFailed(filename) ==
    \E i \in 1..Len(log) :
        /\ log[i].level = "info"
        /\ log[i].msg[1] = "Failed to load "
        /\ log[i].msg[2] = filename

\* the attempt on this file was made
Attempted(filename) ==
    \E i \in 1..Len(calls) : calls[i] = [op |-> "cached_file", arg |-> filename]

ReturnedNull == ret.kind = "return" /\ ret.value.type = "NoneType"

\* the last thing logged is the warning that names the input
WarnedLast ==
    /\ log # <<>>
    /\ log[Len(log)].level = "warning"
    /\ \E i \in 1..Len(log[Len(log)].msg) : log[Len(log)].msg[i] = args.path_or_repo_id

\* C1: the function never raises; a failed first attempt is followed by the
\* second; the result is null exactly when both attempts failed, and then
\* the warning naming the input was logged before the return.
C1_NullExactlyWhenBothFail ==
    LoadDone =>
        /\ ret.kind = "return"
        /\ AttemptFailed(SAFE_WEIGHTS_NAME) => Attempted(WEIGHTS_NAME)
        /\ ReturnedNull <=> (AttemptFailed(SAFE_WEIGHTS_NAME) /\ AttemptFailed(WEIGHTS_NAME))
        /\ ReturnedNull => WarnedLast

\* C2: every result other than null is a mapping that holds the weight and
\* the bias key, whichever attempt produced it; a source with only a legacy
\* file of exactly these two keys yields exactly these two keys.
C2_ResultHoldsBothKeys ==
    (LoadDone /\ ~ReturnedNull) =>
        /\ ret.kind = "return"
        /\ ret.value.type = "dict"
        /\ {WeightKey, BiasKey} \subseteq ret.value.keys
        /\ (/\ args.safe_file.state = "missing"
            /\ args.legacy_file = [state |-> "ok", payload |-> "dict",
                                   keys |-> {WeightKey, BiasKey}])
           => ret.value.keys = {WeightKey, BiasKey}

\* C10: once the first attempt is over, whether it returned, missed a
\* tensor or failed otherwise, the safe-serialization handle is closed: it
\* is never open in the first handler, during the legacy attempt or after
\* the return.
C10_HandleClosedAfterFirstAttempt ==
    (LoadCalled /\ pc \in {"lv_except_safe", "lv_resolve_legacy", "lv_torch_load",
                           "lv_except_legacy", "lv_warn", "done"})
        => ~handle_open

C10_Witness ==
    /\ LoadCalled
    /\ pc = "lv_resolve_legacy"
    /\ \E i \in 1..Len(calls) : calls[i].op = "safe_open"
    /\ \E i \in 1..Len(calls) : calls[i] = [op |-> "get_tensor", arg |-> BiasKey]
    /\ AttemptFailed(SAFE_WEIGHTS_NAME)
    /\ ~handle_open

(* ---------------- properties: register_autoclass ---------------- *)

RegisterDone == args.fn = "register_autoclass" /\ pc = "done"

Registered == {calls[i].arg : i \in {j \in 1..Len(calls) : calls[j].op = "register_for_auto_class"}}

\* the keys the configuration's auto_map declares
ConfigKeys == IF args.config_auto_map.present THEN args.config_auto_map.keys ELSE {}

\* the keys the auto_map in the tokenizer's init_kwargs declares
TokenizerKeys == IF args.tokenizer_auto_map.present THEN args.tokenizer_auto_map.keys ELSE {}

\* C4 as stated: the objects registered are exactly those whose key the
\* configuration's auto_map holds, one call each.
C4_RegistersKeysOfConfig ==
    RegisterDone =>
        /\ Len(calls) = Cardinality(Registered)
        /\ "config" \in Registered <=> "AutoConfig" \in ConfigKeys
        /\ "model" \in Registered <=> "AutoModelForCausalLM" \in ConfigKeys
        /\ "tokenizer" \in Registered <=> "AutoTokenizer" \in ConfigKeys

\* C4 amended: the configuration and the model are registered exactly when
\* the configuration's auto_map holds their key, the tokenizer exactly when
\* the auto_map of its own init_kwargs holds "AutoTokenizer"; one call each,
\* and none when no key is declared.
C4_RegistersKeysOfOwnMapping ==
    RegisterDone =>
        /\ Len(calls) = Cardinality(Registered)
        /\ "config" \in Registered <=> "AutoConfig" \in ConfigKeys
        /\ "model" \in Registered <=> "AutoModelForCausalLM" \in ConfigKeys
        /\ "tokenizer" \in Registered <=> "AutoTokenizer" \in TokenizerKeys
        /\ (ConfigKeys \cap {"AutoConfig", "AutoModelForCausalLM"} = {}
            /\ "AutoTokenizer" \notin TokenizerKeys) => calls = <<>>

C4_Witness ==
    /\ RegisterDone
    /\ ConfigKeys = {"AutoTokenizer"}
    /\ TokenizerKeys = {"AutoTokenizer"}
    /\ calls = << [op |-> "register_for_auto_class", arg |-> "tokenizer"] >>

====
